---- MODULE Spec2Model ----
(***************************************************************************)
(* Request planning of SeisDB-scripts (helpers.py): the ComplexDomain      *)
(* geographic domain and event_get_waveforms, which slices the epicentral  *)
(* distance range into annuli and hands one (domain, restriction) pair per *)
(* annulus to ObsPy's MassDownloader.                                      *)
(*                                                                         *)
(* Python's None is the empty tuple <<>>, a present value v is <<v>>.      *)
(* Angles are whole degrees, times whole seconds, depths whole metres.     *)
(***************************************************************************)
EXTENDS Integers, Sequences, FiniteSets, TLC

VARIABLES origin, cfg, shadow, pc, radii, starttime, domains, restrictions,
          lookups, downloaded, err,
          dom, qp, point, inDom, dpc

pvars == <<origin, cfg, shadow, pc, radii, starttime, domains, restrictions,
           lookups, downloaded, err>>
dvars == <<dom, qp, point, inDom, dpc>>
vars == <<origin, cfg, shadow, pc, radii, starttime, domains, restrictions,
          lookups, downloaded, err, dom, qp, point, inDom, dpc>>

None == <<>>
Some(v) == <<v>>

\* ------------------------------------------------------------------ bounds
\* origin times are 0 .. MaxOriginTime
MaxOriginTime == 1
\* test points and circle centres lie at longitudes 0, 30 .. 30 * MaxLon
MaxLon == 3

\* -------------------------------------------------------- input value sets
RadiusValues == {0, 40, 50, 70, 90, 180, 200}
StepValues == {-30, 0, 30, 50}
RefPhaseValues == {None, Some(<<>>), Some(<<"P">>), Some(<<"P", "S">>)}
OffsetValues == {<<0, 0>>, <<-10, 30>>}
ShadowValues == {{}, {0}, {60}, {180}}
OriginDepths == {10000}

Max(a, b) == IF a >= b THEN a ELSE b
Min(a, b) == IF a <= b THEN a ELSE b

\* Python truthiness of a "str | list | None" argument: None, "" and []
\* are falsy.
Truthy(x) == x # None /\ x[1] # <<>>

\* ----------------------------------------------------------- ComplexDomain
\* ComplexDomain.__init__: the eight fields and the two all-or-nothing flags.
ComplexDomain(minlatitude, maxlatitude, minlongitude, maxlongitude, latitude, longitude, minradius, maxradius) ==
  [minlatitude |-> minlatitude, maxlatitude |-> maxlatitude,
   minlongitude |-> minlongitude, maxlongitude |-> maxlongitude,
   latitude |-> latitude, longitude |-> longitude,
   minradius |-> minradius, maxradius |-> maxradius,
   rectangle_domain |-> /\ minlatitude # None /\ maxlatitude # None
                        /\ minlongitude # None /\ maxlongitude # None,
   circle_domain |-> /\ latitude # None /\ longitude # None
                     /\ minradius # None /\ maxradius # None]

\* obspy.geodetics.gps2dist_azimuth(...)[0]: WGS84 geodesic length in metres,
\* for two points on the equator (111319.491 m per degree of longitude) or
\* for a point on the meridian of an equatorial point (meridian arc length).
Abs(x) == IF x < 0 THEN -x ELSE x

MeridianArc(lat) ==
  CASE Abs(lat) = 0 -> 0
    [] Abs(lat) = 30 -> 3320113
    [] Abs(lat) = 60 -> 6654073
    [] Abs(lat) = 90 -> 10001966

gps2dist_azimuth(lat1, lon1, lat2, lon2) ==
  IF lat1 = 0 /\ lat2 = 0
    THEN Abs(lon2 - lon1) * 111319 + (Abs(lon2 - lon1) * 491) \div 1000
    ELSE MeridianArc(lat2)

\* obspy.geodetics.kilometers2degrees on a sphere of radius 6371 km
\* (111.195 km per degree), taken from metres to whole millidegrees by long
\* division so that no intermediate value leaves 32 bits.
kilometers2degrees(metres) ==
  (metres \div 111195) * 1000 + ((metres % 111195) * 1000) \div 111195

\* get_query_parameters with the two tests in the other order.
get_query_parametersCircleFirst(self) ==
  IF self.circle_domain
    THEN {<<"latitude", self.latitude[1]>>,
          <<"longitude", self.longitude[1]>>,
          <<"minradius", self.minradius[1]>>,
          <<"maxradius", self.maxradius[1]>>}
  ELSE IF self.rectangle_domain
    THEN {<<"minlatitude", self.minlatitude[1]>>,
          <<"maxlatitude", self.maxlatitude[1]>>,
          <<"minlongitude", self.minlongitude[1]>>,
          <<"maxlongitude", self.maxlongitude[1]>>}
  ELSE {}

\* lines 131-156: the mapping is a set of <<name, value>> pairs.
get_query_parameters(self) ==
  IF self.rectangle_domain
    THEN {<<"minlatitude", self.minlatitude[1]>>,
          <<"maxlatitude", self.maxlatitude[1]>>,
          <<"minlongitude", self.minlongitude[1]>>,
          <<"maxlongitude", self.maxlongitude[1]>>}
  ELSE IF self.circle_domain
    THEN {<<"latitude", self.latitude[1]>>,
          <<"longitude", self.longitude[1]>>,
          <<"minradius", self.minradius[1]>>,
          <<"maxradius", self.maxradius[1]>>}
  ELSE {}

\* is_in_domain testing the circle whenever there is one.
is_in_domainAnyCircle(self, latitude, longitude) ==
  IF self.circle_domain
    THEN LET gcdist == kilometers2degrees(
                         gps2dist_azimuth(self.latitude[1], self.longitude[1],
                                          latitude, longitude))
         IN self.minradius[1] * 1000 <= gcdist
              /\ gcdist <= self.maxradius[1] * 1000
    ELSE TRUE

\* lines 158-177; the radii are compared in millidegrees.
is_in_domain(self, latitude, longitude) ==
  IF self.rectangle_domain /\ self.circle_domain
    THEN LET gcdist == kilometers2degrees(
                         gps2dist_azimuth(self.latitude[1], self.longitude[1],
                                          latitude, longitude))
         IN self.minradius[1] * 1000 <= gcdist
              /\ gcdist <= self.maxradius[1] * 1000
    ELSE TRUE

\* ------------------------------------------------------ travel-time lookup
\* TauPyModel.get_travel_times stand-in: P arrives at 60 + 2 * distance,
\* S at 100 + 4 * distance; P has no arrival at the distances in the shadow
\* zone sh.  Arrivals come back ordered by time (P before S).
PTime(distance) == 60 + 2 * distance
STime(distance) == 100 + 4 * distance

InList(phase, phase_list) == \E i \in 1..Len(phase_list) : phase_list[i] = phase

get_travel_times(sh, distance, phase_list) ==
  (IF InList("P", phase_list) /\ distance \notin sh
     THEN <<PTime(distance)>> ELSE <<>>)
  \o (IF InList("S", phase_list) THEN <<STime(distance)>> ELSE <<>>)

\* ------------------------------------------------------ event_get_waveforms
\* numpy.arange(0, stop, step) for integers: empty for a negative step.
RECURSIVE ArangeFrom(_, _, _)
ArangeFrom(start, stop, step) ==
  IF start >= stop THEN <<>>
  ELSE <<start>> \o ArangeFrom(start + step, stop, step)

ArangeStop == 181

arange(step) == IF step < 0 THEN <<>> ELSE ArangeFrom(0, ArangeStop, step)

PlannerInit ==
  /\ origin \in [time : 0..MaxOriginTime, latitude : {10}, longitude : {20},
                 depth : OriginDepths]
  /\ \E mn \in RadiusValues, mx \in RadiusValues, st \in StepValues,
        sp \in RefPhaseValues, ep \in RefPhaseValues, off \in OffsetValues :
       cfg = [minradius |-> mn, maxradius |-> mx, radius_step |-> st,
              startrefphase |-> sp, endrefphase |-> ep,
              startoffset |-> off[1], endoffset |-> off[2]]
  /\ shadow \in ShadowValues
  /\ pc = "start"
  /\ radii = <<>>
  /\ starttime = None
  /\ domains = <<>>
  /\ restrictions = <<>>
  /\ lookups = <<>>
  /\ downloaded = <<>>
  /\ err = "none"

DomainIdle ==
  /\ dom = None /\ qp = None /\ point = None /\ inDom = None /\ dpc = "idle"

Init == PlannerInit /\ DomainIdle

\* Restrictions with the end time left at the start time.
RestrictionsNoEnd(st, et) == [starttime |-> st, endtime |-> st]

\* lines 233-237 and 265-267: the time window of a request.
Restrictions(st, et) == [starttime |-> st, endtime |-> et]

\* NoRefPhase with "or" for "and" in its test: one missing reference phase
\* is enough to take the origin-time branch.
NoRefPhaseEither ==
  /\ pc = "start"
  /\ ~Truthy(cfg.startrefphase) \/ ~Truthy(cfg.endrefphase)
  /\ domains' = Append(domains,
        ComplexDomain(None, None, None, None,
                      Some(origin.latitude), Some(origin.longitude),
                      Some(cfg.minradius), Some(cfg.maxradius)))
  /\ restrictions' = Append(restrictions,
        Restrictions(origin.time + cfg.startoffset,
                     origin.time + cfg.endoffset))
  /\ pc' = "download"
  /\ UNCHANGED <<origin, cfg, shadow, radii, starttime, lookups, downloaded,
                 err>>

\* lines 225-239: no reference phase, one request from the origin time.
NoRefPhase ==
  /\ pc = "start"
  /\ ~Truthy(cfg.startrefphase) /\ ~Truthy(cfg.endrefphase)
  /\ domains' = Append(domains,
        ComplexDomain(None, None, None, None,
                      Some(origin.latitude), Some(origin.longitude),
                      Some(cfg.minradius), Some(cfg.maxradius)))
  /\ restrictions' = Append(restrictions,
        Restrictions(origin.time + cfg.startoffset,
                     origin.time + cfg.endoffset))
  /\ pc' = "download"
  /\ UNCHANGED <<origin, cfg, shadow, radii, starttime, lookups, downloaded,
                 err>>

\* lines 240-243: both reference phases given; numpy.arange builds the
\* candidate radii and rejects a zero step.
RefPhase ==
  /\ pc = "start"
  /\ Truthy(cfg.startrefphase) /\ Truthy(cfg.endrefphase)
  /\ IF cfg.radius_step = 0
       THEN /\ pc' = "error"
            /\ err' = "ArangeError"
            /\ radii' = radii
       ELSE /\ pc' = "loop"
            /\ err' = err
            /\ radii' = arange(cfg.radius_step)
  /\ UNCHANGED <<origin, cfg, shadow, starttime, domains, restrictions,
                 lookups, downloaded>>

\* lines 270-272: exactly one reference phase given.
RefPhaseMismatch ==
  /\ pc = "start"
  /\ Truthy(cfg.startrefphase) # Truthy(cfg.endrefphase)
  /\ pc' = "error"
  /\ err' = "ValueError"
  /\ UNCHANGED <<origin, cfg, shadow, radii, starttime, domains, restrictions,
                 lookups, downloaded>>

\* Skipped that also drops the annuli reaching over an end of the range.
SkippedPartial(radius) ==
  radius < cfg.minradius \/ radius + cfg.radius_step > cfg.maxradius

\* line 244: the annulus [radius, radius + radius_step] misses the range.
Skipped(radius) ==
  radius + cfg.radius_step < cfg.minradius \/ radius > cfg.maxradius

\* lines 244-245: continue.
LoopSkip ==
  /\ pc = "loop"
  /\ radii # <<>>
  /\ Skipped(Head(radii))
  /\ radii' = Tail(radii)
  /\ UNCHANGED <<origin, cfg, shadow, pc, starttime, domains, restrictions,
                 lookups, downloaded, err>>

\* lines 246-251: first arrival of startrefphase at the clipped lower edge.
LoopStartLookup ==
  /\ pc = "loop"
  /\ radii # <<>>
  /\ ~Skipped(Head(radii))
  /\ LET distance == Max(Head(radii), cfg.minradius)
         arrivals == get_travel_times(shadow, distance, cfg.startrefphase[1])
     IN /\ lookups' = Append(lookups,
             [source_depth_in_km |-> origin.depth \div 1000,
              distance_in_degree |-> distance,
              phase_list |-> cfg.startrefphase[1]])
        /\ IF arrivals = <<>>
             THEN /\ pc' = "error"
                  /\ err' = "IndexError"
                  /\ starttime' = starttime
             ELSE /\ pc' = "endlookup"
                  /\ err' = err
                  /\ starttime' =
                       Some(origin.time + arrivals[1] + cfg.startoffset)
  /\ UNCHANGED <<origin, cfg, shadow, radii, domains, restrictions,
                 downloaded>>

\* lines 252-269: last arrival of endrefphase at the clipped upper edge, then
\* the annulus' domain and restriction are appended.
LoopEndLookup ==
  /\ pc = "endlookup"
  /\ LET radius == Head(radii)
         distance == Min(radius + cfg.radius_step, cfg.maxradius)
         arrivals == get_travel_times(shadow, distance, cfg.endrefphase[1])
     IN /\ lookups' = Append(lookups,
             [source_depth_in_km |-> origin.depth \div 1000,
              distance_in_degree |-> distance,
              phase_list |-> cfg.endrefphase[1]])
        /\ IF arrivals = <<>>
             THEN /\ pc' = "error"
                  /\ err' = "IndexError"
                  /\ UNCHANGED <<radii, starttime, domains, restrictions>>
             ELSE /\ pc' = "loop"
                  /\ err' = err
                  /\ radii' = Tail(radii)
                  /\ starttime' = None
                  /\ domains' = Append(domains,
                       ComplexDomain(None, None, None, None,
                         Some(origin.latitude), Some(origin.longitude),
                         Some(Max(radius, cfg.minradius)),
                         Some(Min(radius + cfg.radius_step, cfg.maxradius))))
                  /\ restrictions' = Append(restrictions,
                       Restrictions(starttime[1],
                         origin.time + arrivals[Len(arrivals)]
                           + cfg.endoffset))
  /\ UNCHANGED <<origin, cfg, shadow, downloaded>>

\* line 243: the radii are exhausted.
LoopExit ==
  /\ pc = "loop"
  /\ radii = <<>>
  /\ pc' = "download"
  /\ UNCHANGED <<origin, cfg, shadow, radii, starttime, domains, restrictions,
                 lookups, downloaded, err>>

\* Download run from inside the loop, as soon as a pair exists.
DownloadEager ==
  /\ pc \in {"loop", "endlookup", "download"}
  /\ Len(downloaded) < Len(domains)
  /\ LET k == Len(downloaded) + 1
     IN downloaded' = Append(downloaded,
          [domain |-> domains[k], restriction |-> restrictions[k]])
  /\ UNCHANGED <<origin, cfg, shadow, pc, radii, starttime, domains,
                 restrictions, lookups, err>>

\* lines 274-281: the pairs go to MassDownloader.download in order.
Download ==
  /\ pc = "download"
  /\ Len(downloaded) < Len(domains)
  /\ LET k == Len(downloaded) + 1
     IN downloaded' = Append(downloaded,
          [domain |-> domains[k], restriction |-> restrictions[k]])
  /\ UNCHANGED <<origin, cfg, shadow, pc, radii, starttime, domains,
                 restrictions, lookups, err>>

\* line 281: the function returns.
Return ==
  /\ pc = "download"
  /\ Len(downloaded) = Len(domains)
  /\ pc' = "done"
  /\ UNCHANGED <<origin, cfg, shadow, radii, starttime, domains, restrictions,
                 lookups, downloaded, err>>

Next ==
  \/ (NoRefPhase /\ UNCHANGED dvars)
  \/ (RefPhase /\ UNCHANGED dvars)
  \/ (RefPhaseMismatch /\ UNCHANGED dvars)
  \/ (LoopSkip /\ UNCHANGED dvars)
  \/ (LoopStartLookup /\ UNCHANGED dvars)
  \/ (LoopEndLookup /\ UNCHANGED dvars)
  \/ (LoopExit /\ UNCHANGED dvars)
  \/ (Download /\ UNCHANGED dvars)
  \/ (Return /\ UNCHANGED dvars)

Spec == Init /\ [][Next]_vars

\* --------------------------------------------------- ComplexDomain's use
Opt(S) == {None} \cup {Some(v) : v \in S}

Lons == {30 * k : k \in 0..MaxLon}
Lats == {-30, 0, 30, 60, 90}

PlannerIdle ==
  /\ origin = None /\ cfg = None /\ shadow = {} /\ pc = "idle"
  /\ radii = <<>> /\ starttime = None /\ domains = <<>>
  /\ restrictions = <<>> /\ lookups = <<>> /\ downloaded = <<>>
  /\ err = "none"

DomainInit == PlannerIdle /\ DomainIdle

\* lines 98-129: any subset of the eight arguments may be left out.  The
\* centre of a circle is kept on the equator.
Construct ==
  /\ dpc = "idle"
  /\ \E minlatitude \in Opt({-10}), maxlatitude \in Opt({10}),
        minlongitude \in Opt({0}), maxlongitude \in Opt({40}),
        latitude \in Opt({0}), longitude \in Opt(Lons \cap {0, 30}),
        minradius \in Opt({0, 30}), maxradius \in Opt({30, 60}) :
       dom' = Some(ComplexDomain(minlatitude, maxlatitude, minlongitude,
                                 maxlongitude, latitude, longitude,
                                 minradius, maxradius))
  /\ dpc' = "built"
  /\ UNCHANGED <<qp, point, inDom>>

\* get_stations() asks the domain for its query parameters.
GetQueryParameters ==
  /\ dpc = "built"
  /\ qp' = Some(get_query_parameters(dom[1]))
  /\ UNCHANGED <<dom, point, inDom, dpc>>

\* A downloaded station's coordinates are tested: a point on the equator, or
\* one on the meridian of the circle's centre.
IsInDomain ==
  /\ dpc = "built"
  /\ \E latitude \in Lats, longitude \in Lons :
       /\ latitude # 0 =>
            (dom[1].longitude # None /\ longitude = dom[1].longitude[1])
       /\ point' = Some([latitude |-> latitude, longitude |-> longitude])
       /\ inDom' = Some(is_in_domain(dom[1], latitude, longitude))
  /\ UNCHANGED <<dom, qp, dpc>>

DomainNext ==
  \/ (Construct /\ UNCHANGED pvars)
  \/ (GetQueryParameters /\ UNCHANGED pvars)
  \/ (IsInDomain /\ UNCHANGED pvars)

SpecDomain == DomainInit /\ [][DomainNext]_vars

\* ================================================================ claims
StartRef == cfg.startrefphase
EndRef == cfg.endrefphase
BothRefPhases == Truthy(StartRef) /\ Truthy(EndRef)
Band(d) == <<d.minradius[1], d.maxradius[1]>>
Window(r) == <<r.starttime, r.endtime>>
PureCircle(d) ==
  /\ d.circle_domain /\ ~d.rectangle_domain
  /\ d.minlatitude = None /\ d.maxlatitude = None
  /\ d.minlongitude = None /\ d.maxlongitude = None
  /\ d.latitude = Some(origin.latitude)
  /\ d.longitude = Some(origin.longitude)
Planned == pc \in {"download", "done"}

\* C1: with exactly one of startrefphase / endrefphase given and the other
\* None, the call ends in the ValueError of line 272, no travel time has been
\* looked up and nothing has been handed to the downloader.
OneRefPhaseOnly ==
  \/ (Truthy(StartRef) /\ EndRef = None)
  \/ (StartRef = None /\ Truthy(EndRef))

C1_OneRefPhaseFails ==
  (pc # "start" /\ OneRefPhaseOnly) =>
    /\ pc = "error" /\ err = "ValueError"
    /\ lookups = <<>> /\ domains = <<>> /\ downloaded = <<>>

C1_Witness == pc = "error" /\ err = "ValueError" /\ OneRefPhaseOnly

\* C2: with both reference phases None the plan is one request, whatever the
\* origin, radii and offsets: its window is [origin.time + startoffset,
\* origin.time + endoffset], its domain the circle around the origin with the
\* configured radii and no rectangle, no travel time is looked up, and that
\* one request is what the downloader gets.
NoRefPhases == StartRef = None /\ EndRef = None

C2_NoRefPhaseOneUnit ==
  (pc # "start" /\ NoRefPhases) =>
    /\ Planned
    /\ Len(domains) = 1 /\ Len(restrictions) = 1
    /\ Window(restrictions[1]) =
         <<origin.time + cfg.startoffset, origin.time + cfg.endoffset>>
    /\ PureCircle(domains[1])
    /\ Band(domains[1]) = <<cfg.minradius, cfg.maxradius>>
    /\ lookups = <<>>
    /\ pc = "done" =>
         downloaded = <<[domain |-> domains[1],
                         restriction |-> restrictions[1]]>>

C2_Witness ==
  /\ pc = "done" /\ NoRefPhases /\ Len(downloaded) = 1
  /\ cfg.startoffset # cfg.endoffset /\ cfg.minradius = 40
  /\ cfg.maxradius = 70

\* C3: on the phase-reference path with minradius = 0, maxradius = 180 and
\* radius_step = 30 the finished plan has exactly 6 requests, each one's
\* maxradius being the next one's minradius, from 0 up to 180.
C3_Config ==
  /\ BothRefPhases
  /\ cfg.minradius = 0 /\ cfg.maxradius = 180 /\ cfg.radius_step = 30

Contiguous ==
  \A i \in 1..(Len(domains) - 1) :
    /\ domains[i].maxradius = domains[i + 1].minradius
    /\ domains[i].minradius[1] < domains[i].maxradius[1]

C3_SixAnnuli ==
  (Planned /\ C3_Config) =>
    /\ Len(domains) = 6
    /\ Contiguous
    /\ domains[1].minradius = Some(0)
    /\ domains[Len(domains)].maxradius = Some(180)

\* C4: origin depth 10 km, minradius = 0, maxradius = 90, radius_step = 30,
\* startoffset = -10, endoffset = 30, both reference phases ["P"] and P
\* arriving after 60, 120, 180, 240 s at 0, 30, 60, 90 degrees: the finished
\* plan is exactly the 3 requests with bands [0,30], [30,60], [60,90] and
\* windows [T0+50, T0+150], [T0+110, T0+210], [T0+170, T0+270], in this order.
C4_Config ==
  /\ origin.depth = 10000
  /\ cfg.minradius = 0 /\ cfg.maxradius = 90 /\ cfg.radius_step = 30
  /\ cfg.startoffset = -10 /\ cfg.endoffset = 30
  /\ StartRef = Some(<<"P">>) /\ EndRef = Some(<<"P">>)
  /\ shadow \cap {0, 30, 60, 90} = {}

C4_ThreeUnits ==
  (Planned /\ C4_Config) =>
    /\ Len(domains) = 3 /\ Len(restrictions) = 3
    /\ <<Band(domains[1]), Band(domains[2]), Band(domains[3])>> =
         << <<0, 30>>, <<30, 60>>, <<60, 90>> >>
    /\ <<Window(restrictions[1]), Window(restrictions[2]),
         Window(restrictions[3])>> =
         << <<origin.time + 50, origin.time + 150>>,
            <<origin.time + 110, origin.time + 210>>,
            <<origin.time + 170, origin.time + 270>> >>

\* C5: on the phase-reference path with minradius = 40, maxradius = 70 and
\* radius_step = 30 the finished plan holds a request for each candidate
\* annulus [radius, radius + 30] that meets [40, 70] and for no other, the
\* first request starts at 40, the last one ends at 70, and every band lies
\* inside [40, 70].
C5_Config ==
  /\ BothRefPhases
  /\ cfg.minradius = 40 /\ cfg.maxradius = 70 /\ cfg.radius_step = 30

C5_Candidates == {30 * k : k \in 0..6}
C5_Outside(radius) == radius + 30 < 40 \/ radius > 70
C5_Clipped(radius) == <<Max(radius, 40), Min(radius + 30, 70)>>

C5_RangeRestricted ==
  (Planned /\ C5_Config) =>
    /\ domains # <<>>
    /\ domains[1].minradius = Some(40)
    /\ domains[Len(domains)].maxradius = Some(70)
    /\ \A i \in 1..Len(domains) :
         /\ 40 <= Band(domains[i])[1]
         /\ Band(domains[i])[1] <= Band(domains[i])[2]
         /\ Band(domains[i])[2] <= 70
    /\ \A radius \in C5_Candidates :
         C5_Outside(radius) <=>
           ~\E i \in 1..Len(domains) : Band(domains[i]) = C5_Clipped(radius)
    /\ \A k \in 1..Len(lookups) :
         /\ 40 <= lookups[k].distance_in_degree
         /\ lookups[k].distance_in_degree <= 70

C5_Witness ==
  /\ pc = "done" /\ C5_Config /\ Len(downloaded) = 2
  /\ Band(downloaded[1].domain) = <<40, 60>>
  /\ Band(downloaded[2].domain) = <<60, 70>>

\* C6: for every choice of present and absent fields, get_query_parameters
\* gives the four rectangle bounds when all four rectangle fields are present
\* (a circle or not), else the four circle parameters when all four circle
\* fields are present, else the empty mapping; one to three fields of a bound
\* do not configure it.
AllPresent(fields) == \A f \in fields : dom[1][f] # None
Mapping(fields) == {<<f, dom[1][f][1]>> : f \in fields}
RectangleFields ==
  {"minlatitude", "maxlatitude", "minlongitude", "maxlongitude"}
CircleFields == {"latitude", "longitude", "minradius", "maxradius"}

C6_QueryParameters ==
  qp # None =>
    qp[1] = IF AllPresent(RectangleFields) THEN Mapping(RectangleFields)
            ELSE IF AllPresent(CircleFields) THEN Mapping(CircleFields)
            ELSE {}

\* a rectangle query although a circle is configured too, and although the
\* western bound is 0
C6_Witness ==
  /\ qp # None /\ dom # None
  /\ AllPresent(RectangleFields) /\ AllPresent(CircleFields)
  /\ qp[1] = Mapping(RectangleFields)
  /\ <<"minlongitude", 0>> \in qp[1]

\* C7: is_in_domain is true for every point unless both the rectangle and the
\* circle have all their fields; then it is true exactly when the distance
\* from the circle's centre to the point is at least minradius and at most
\* maxradius, wherever the point lies with respect to the rectangle.
Distance ==
  kilometers2degrees(
    gps2dist_azimuth(dom[1].latitude[1], dom[1].longitude[1],
                     point[1].latitude, point[1].longitude))

C7_IsInDomain ==
  inDom # None =>
    inDom[1] = IF AllPresent(RectangleFields) /\ AllPresent(CircleFields)
                 THEN /\ dom[1].minradius[1] * 1000 <= Distance
                      /\ Distance <= dom[1].maxradius[1] * 1000
                 ELSE TRUE

InRectangle ==
  /\ dom[1].minlatitude[1] <= point[1].latitude
  /\ point[1].latitude <= dom[1].maxlatitude[1]
  /\ dom[1].minlongitude[1] <= point[1].longitude
  /\ point[1].longitude <= dom[1].maxlongitude[1]

\* both bounds configured, a point in the radius band and outside the
\* rectangle
C7_Witness ==
  /\ inDom = Some(TRUE)
  /\ AllPresent(RectangleFields) /\ AllPresent(CircleFields)
  /\ ~InRectangle
  /\ dom[1].minradius[1] > 0

\* C8: once a travel-time lookup of the phase-reference path comes back
\* without an arrival, at the start or at the end of any annulus, the call
\* has ended in the IndexError of the subscript, with that lookup as its
\* last, and no request, those of earlier annuli included, has been handed
\* to the downloader.
NoArrival(k) ==
  get_travel_times(shadow, lookups[k].distance_in_degree,
                   lookups[k].phase_list) = <<>>

C8_LookupFailureFatal ==
  /\ \A k \in 1..Len(lookups) :
       NoArrival(k) =>
         /\ k = Len(lookups)
         /\ pc = "error" /\ err = "IndexError"
  /\ pc = "error" => downloaded = <<>>

\* the failure comes after two annuli have been planned
C8_Witness ==
  /\ pc = "error" /\ err = "IndexError"
  /\ lookups # <<>> /\ NoArrival(Len(lookups))
  /\ Len(domains) >= 2

\* C9: with minradius > maxradius the call does not fail and plans nothing.
C9_InvertedRangeEmpty ==
  (pc # "start" /\ cfg.minradius > cfg.maxradius) =>
    /\ pc # "error"
    /\ domains = <<>> /\ downloaded = <<>>

\* C10: with minradius > 180 or radius_step <= 0 the call fails with a
\* configuration error before any travel time is looked up.
C10_BadConfigRejected ==
  (pc # "start" /\ (cfg.minradius > 180 \/ cfg.radius_step <= 0)) =>
    /\ pc = "error" /\ err \in {"ValueError", "ArangeError"}
    /\ lookups = <<>>

\* C11: in one call with a valid configuration (0 <= minradius <= maxradius
\* <= 180, radius_step > 0) the travel-time lookup is called at most
\* 2 * ceil(180 / radius_step) times.
ValidConfig ==
  /\ 0 <= cfg.minradius /\ cfg.minradius <= cfg.maxradius
  /\ cfg.maxradius <= 180 /\ cfg.radius_step > 0

CeilDiv(a, b) == (a + b - 1) \div b

C11_LookupBound ==
  ValidConfig => Len(lookups) <= 2 * CeilDiv(180, cfg.radius_step)

====
